---- MODULE Spec2Model ----
(***************************************************************************)
(* Model of the authentication demo of learn-nextjs-again:                 *)
(*   - src/lib/validation.ts : messageSchema, loginSchema (zod) and the    *)
(*     JWT helpers signToken / verifyToken / extractBearerToken /          *)
(*     authenticateRequest (jsonwebtoken)                                  *)
(*   - app/api/auth/login/route.ts : POST /login                           *)
(*   - app/api/messages/route.ts   : POST /messages, GET /messages         *)
(*                                                                         *)
(* JavaScript strings are sequences of one-character strings.  A JSON      *)
(* value is a record [t, s]: t is its JavaScript type, s its characters    *)
(* when it is a string.  Time is Math.floor(Date.now() / 1000).            *)
(***************************************************************************)
EXTENDS Integers, Sequences, FiniteSets, TLC

VARIABLES now, ticks, issued, req, resp, accounts, state, page, caller, timers

vars == <<now, ticks, issued, req, resp, accounts, state, page, caller, timers>>

(***************************************************************************)
(* Bounds of the model.                                                    *)
(***************************************************************************)
MaxTicks == 2
MaxTokens == 2
MaxTimers == 2
MaxWaits == 1

(***************************************************************************)
(* Strings.                                                                *)
(***************************************************************************)
\* a value of type string | null
NullStr == [isNull |-> TRUE, s |-> <<>>]

Str(s) == [isNull |-> FALSE, s |-> s]

Rep(c, n) == [i \in 1..n |-> c]

StartsWith(s, p) == Len(s) >= Len(p) /\ SubSeq(s, 1, Len(p)) = p

Substring(s, from) == SubSeq(s, from + 1, Len(s))

Lower == {"a", "b", "c", "d", "e", "f", "g", "h", "i", "j", "k", "l", "m",
          "n", "o", "p", "q", "r", "s", "t", "u", "v", "w", "x", "y", "z"}

Upper == {"A", "B", "C", "D", "E", "F", "G", "H", "I", "J", "K", "L", "M",
          "N", "O", "P", "Q", "R", "S", "T", "U", "V", "W", "X", "Y", "Z"}

Digit == {"0", "1", "2", "3", "4", "5", "6", "7", "8", "9"}

AlphaNum == Lower \cup Upper \cup Digit

(***************************************************************************)
(* JSON values and request bodies.                                         *)
(***************************************************************************)
JStr(s) == [t |-> "string", s |-> s]

JNum == [t |-> "number", s |-> <<>>]

JUndefined == [t |-> "undefined", s |-> <<>>]

\* kind: "object" (f gives the value of each key, JUndefined when the key
\* is absent), another JSON type, or "unparseable" (request.json() throws)
JObject(f) == [kind |-> "object", f |-> f]

JOther(kind) == [kind |-> kind, f |-> <<>>]

(***************************************************************************)
(* zod: z.string() with .min / .max / .email checks, z.object, safeParse   *)
(* and error.flatten().fieldErrors.                                        *)
(***************************************************************************)
\* the address pattern of z.string().email():
\*   ^(?!\.)(?!.*\.\.)([A-Z0-9_'+\-\.]*)[A-Z0-9_+-]@([A-Z0-9][A-Z0-9\-]*\.)+[A-Z]{2,}$  (case-insensitive)
LocalChars == AlphaNum \cup {"_", "'", "+", "-", "."}

LocalLastChars == AlphaNum \cup {"_", "+", "-"}

Letters == Lower \cup Upper

DotPositions(s) == {i \in 1..Len(s) : s[i] = "."}

\* a domain label "[A-Z0-9][A-Z0-9\-]*" followed by its dot, s[from..to-1] with s[to] = "."
IsLabel(s, from, to) ==
    /\ to > from
    /\ s[from] \in AlphaNum
    /\ \A i \in from..(to - 1) : s[i] \in AlphaNum \cup {"-"}

IsDomain(d) ==
    LET dots == DotPositions(d)
        lastDot == IF dots = {} THEN 0 ELSE CHOOSE i \in dots : \A j \in dots : j <= i
        starts == {1} \cup {i + 1 : i \in dots}
    IN  /\ dots # {}
        /\ Len(d) - lastDot >= 2
        /\ \A i \in (lastDot + 1)..Len(d) : d[i] \in Letters
        /\ \A to \in dots :
              LET from == CHOOSE f \in starts : f <= to /\ \A g \in starts : g <= to => g <= f
              IN  IsLabel(d, from, to)

IsEmail(s) ==
    LET ats == {i \in 1..Len(s) : s[i] = "@"}
    IN  /\ Len(s) > 0
        /\ s[1] # "."
        /\ \A i \in 1..(Len(s) - 1) : ~(s[i] = "." /\ s[i + 1] = ".")
        /\ Cardinality(ats) = 1
        /\ LET at == CHOOSE i \in ats : TRUE
           IN  /\ at >= 2
               /\ \A i \in 1..(at - 1) : s[i] \in LocalChars
               /\ s[at - 1] \in LocalLastChars
               /\ IsDomain(SubSeq(s, at + 1, Len(s)))

\* a check of a string schema: [kind, value, message]
Min(n, msg) == [kind |-> "min", value |-> n, message |-> msg]

Max(n, msg) == [kind |-> "max", value |-> n, message |-> msg]

Email(msg) == [kind |-> "email", value |-> 0, message |-> msg]

\* the length bounds taken as exclusive
CheckFails_Exclusive(s, check) ==
    CASE check.kind = "min" -> Len(s) <= check.value
      [] check.kind = "max" -> Len(s) >= check.value
      [] check.kind = "email" -> ~IsEmail(s)

CheckFails(s, check) ==
    CASE check.kind = "min" -> Len(s) < check.value
      [] check.kind = "max" -> Len(s) > check.value
      [] check.kind = "email" -> ~IsEmail(s)

RECURSIVE CheckIssues(_, _)
CheckIssues(s, checks) ==
    IF checks = <<>> THEN <<>>
    ELSE (IF CheckFails(s, Head(checks)) THEN <<Head(checks).message>> ELSE <<>>)
         \o CheckIssues(s, Tail(checks))

\* z.string()...: the messages of the issues raised for a value
StringIssues(v, checks) ==
    CASE v.t = "undefined" -> <<"Required">>
      [] v.t # "string" -> <<"Expected string, received " \o v.t>>
      [] OTHER -> CheckIssues(v.s, checks)

\* schema.safeParse(body) of a z.object whose shape maps each key to the
\* checks of its string schema; fieldErrors is error.flatten().fieldErrors
SafeParse(shape, body) ==
    IF body.kind # "object"
    THEN [success |-> FALSE,
          formErrors |-> <<"Expected object, received " \o body.kind>>,
          fieldErrors |-> <<>>]
    ELSE LET bad == {k \in DOMAIN shape : StringIssues(body.f[k], shape[k]) # <<>>}
         IN  [success |-> bad = {},
              formErrors |-> <<>>,
              fieldErrors |-> [k \in bad |-> StringIssues(body.f[k], shape[k])]]

\* the message rule with the minimum of the name rule
messageSchema_ShortMessage ==
    [name |-> <<Min(2, "Name must be at least 2 characters"), Max(100, "Name is too long")>>,
     email |-> <<Email("Invalid email address")>>,
     message |-> <<Min(2, "Message must be at least 10 characters"),
                   Max(1000, "Message is too long")>>]

messageSchema ==
    [name |-> <<Min(2, "Name must be at least 2 characters"), Max(100, "Name is too long")>>,
     email |-> <<Email("Invalid email address")>>,
     message |-> <<Min(10, "Message must be at least 10 characters"),
                   Max(1000, "Message is too long")>>]

loginSchema ==
    [username |-> <<Min(3, "Username must be at least 3 characters")>>,
     password |-> <<Min(6, "Password must be at least 6 characters")>>]

(***************************************************************************)
(* Decimal numerals (the numbers inside the token's JSON claims).          *)
(***************************************************************************)
DigitChars == <<"0", "1", "2", "3", "4", "5", "6", "7", "8", "9">>

RECURSIVE Digits(_)
Digits(n) == IF n < 10 THEN <<DigitChars[n + 1]>>
             ELSE Digits(n \div 10) \o <<DigitChars[(n % 10) + 1]>>

DigitValue(c) == (CHOOSE i \in 1..10 : DigitChars[i] = c) - 1

IsNumeral(s) == Len(s) > 0 /\ \A i \in 1..Len(s) : s[i] \in Digit

RECURSIVE ParseNat(_)
ParseNat(s) == IF Len(s) = 0 THEN 0
               ELSE 10 * ParseNat(SubSeq(s, 1, Len(s) - 1)) + DigitValue(s[Len(s)])

\* s.split(sep): the sequence of the pieces of s between occurrences of sep
RECURSIVE Split(_, _)
Split(s, sep) ==
    LET hits == {i \in 1..Len(s) : s[i] = sep}
    IN  IF hits = {} THEN <<s>>
        ELSE LET i == CHOOSE h \in hits : \A g \in hits : h <= g
             IN  <<SubSeq(s, 1, i - 1)>> \o Split(SubSeq(s, i + 1, Len(s)), sep)

(***************************************************************************)
(* jsonwebtoken.  A token is the string header.claims.signature.  The      *)
(* base64url text of a segment is modelled by an injective text encoding   *)
(* of its content, and HMAC-SHA256 by an injective keyed tag over the      *)
(* signing input (no collisions, no forgery without the key).              *)
(***************************************************************************)
JWT_SECRET == "K"

ExpiresInSeconds == 3600

\* base64url({"alg":"HS256","typ":"JWT"})
HeaderSegment == <<"H", "S">>

\* base64url(JSON.stringify({userId, username, iat, exp}))
EncodeClaims(c) ==
    c.userId \o <<",">> \o c.username \o <<",">> \o Digits(c.iat) \o <<",">> \o Digits(c.exp)

ClaimsDecodable(seg) ==
    LET parts == Split(seg, ",")
    IN  Len(parts) = 4 /\ IsNumeral(parts[3]) /\ IsNumeral(parts[4])

DecodeClaims(seg) ==
    LET parts == Split(seg, ",")
    IN  [userId |-> parts[1], username |-> parts[2],
         iat |-> ParseNat(parts[3]), exp |-> ParseNat(parts[4])]

\* base64url(HMAC-SHA256(key, input)); base64url text holds no "."
Hmac(key, input) ==
    <<key>> \o [i \in 1..Len(input) |-> IF input[i] = "." THEN "_" ELSE input[i]]

\* jwt.sign(payload, secret, {expiresIn}) at clock time t
JwtSign(payload, secret, expiresIn, t) ==
    LET claims == [userId |-> payload.userId, username |-> payload.username,
                   iat |-> t, exp |-> t + expiresIn]
        input == HeaderSegment \o <<".">> \o EncodeClaims(claims)
    IN  input \o <<".">> \o Hmac(secret, input)

\* the classes an error thrown by jwt.verify is an instance of:
\* TokenExpiredError.prototype = Object.create(JsonWebTokenError.prototype)
ErrorClasses(name) ==
    CASE name = "TokenExpiredError" -> {"TokenExpiredError", "JsonWebTokenError", "Error"}
      [] name = "NotBeforeError" -> {"NotBeforeError", "JsonWebTokenError", "Error"}
      [] name = "JsonWebTokenError" -> {"JsonWebTokenError", "Error"}
      [] OTHER -> {"Error"}

InstanceOf(err, class) == class \in ErrorClasses(err.name)

NoClaims == [userId |-> <<>>, username |-> <<>>, iat |-> 0, exp |-> 0]

Thrown(name, message) == [ok |-> FALSE, payload |-> NoClaims, name |-> name, message |-> message]

Returned(payload) == [ok |-> TRUE, payload |-> payload, name |-> "", message |-> ""]

\* jwt.decode in place of jwt.verify: the signature is not compared
JwtVerify_NoSignature(token, secret, t) ==
    LET parts == Split(token, ".")
    IN  IF Len(token) = 0 THEN Thrown("JsonWebTokenError", "jwt must be provided")
        ELSE IF Len(parts) # 3 THEN Thrown("JsonWebTokenError", "jwt malformed")
        ELSE IF ~ClaimsDecodable(parts[2]) THEN Thrown("JsonWebTokenError", "invalid token")
        ELSE IF t >= DecodeClaims(parts[2]).exp THEN Thrown("TokenExpiredError", "jwt expired")
        ELSE Returned(DecodeClaims(parts[2]))

\* jwt.verify with ignoreExpiration: the exp claim is not compared with the clock
JwtVerify_NoExpiry(token, secret, t) ==
    LET parts == Split(token, ".")
    IN  IF Len(token) = 0 THEN Thrown("JsonWebTokenError", "jwt must be provided")
        ELSE IF Len(parts) # 3 THEN Thrown("JsonWebTokenError", "jwt malformed")
        ELSE IF ~ClaimsDecodable(parts[2]) THEN Thrown("JsonWebTokenError", "invalid token")
        ELSE IF Len(parts[3]) = 0 THEN Thrown("JsonWebTokenError", "jwt signature is required")
        ELSE IF parts[1] # HeaderSegment THEN Thrown("JsonWebTokenError", "invalid algorithm")
        ELSE IF parts[3] # Hmac(secret, parts[1] \o <<".">> \o parts[2])
             THEN Thrown("JsonWebTokenError", "invalid signature")
        ELSE Returned(DecodeClaims(parts[2]))

\* jwt.verify(token, secret) at clock time t: the payload returned or the error thrown
JwtVerify(token, secret, t) ==
    LET parts == Split(token, ".")
    IN  IF Len(token) = 0 THEN Thrown("JsonWebTokenError", "jwt must be provided")
        ELSE IF Len(parts) # 3 THEN Thrown("JsonWebTokenError", "jwt malformed")
        ELSE IF ~ClaimsDecodable(parts[2]) THEN Thrown("JsonWebTokenError", "invalid token")
        ELSE IF Len(parts[3]) = 0 THEN Thrown("JsonWebTokenError", "jwt signature is required")
        ELSE IF parts[1] # HeaderSegment THEN Thrown("JsonWebTokenError", "invalid algorithm")
        ELSE IF parts[3] # Hmac(secret, parts[1] \o <<".">> \o parts[2])
             THEN Thrown("JsonWebTokenError", "invalid signature")
        ELSE IF t >= DecodeClaims(parts[2]).exp THEN Thrown("TokenExpiredError", "jwt expired")
        ELSE Returned(DecodeClaims(parts[2]))

(***************************************************************************)
(* src/lib/validation.ts: the JWT helpers.                                 *)
(***************************************************************************)
\* signToken signing with a key the verifier does not use
signToken_OtherSecret(payload, t) == JwtSign(payload, "X", ExpiresInSeconds, t)

\* signToken with expiresIn '1m' in place of '1h'
signToken_OneMinute(payload, t) == JwtSign(payload, JWT_SECRET, 60, t)

signToken(payload, t) == JwtSign(payload, JWT_SECRET, ExpiresInSeconds, t)

\* the catch block maps the library's error to a new Error(message)
verifyToken(token, t) ==
    LET r == JwtVerify(token, JWT_SECRET, t)
    IN  IF r.ok THEN r
        ELSE IF InstanceOf(r, "JsonWebTokenError") THEN Thrown("Error", "Invalid token")
        ELSE IF InstanceOf(r, "TokenExpiredError") THEN Thrown("Error", "Token expired")
        ELSE Thrown("Error", "Token verification failed")

\* the scheme compared without regard to case
extractBearerToken_AnyCase(authHeader) ==
    IF authHeader.isNull \/ Len(authHeader.s) < 7
       \/ SubSeq(authHeader.s, 1, 7) \notin {<<"B", "e", "a", "r", "e", "r", " ">>,
                                             <<"b", "e", "a", "r", "e", "r", " ">>,
                                             <<"B", "E", "A", "R", "E", "R", " ">>}
    THEN NullStr
    ELSE Str(Substring(authHeader.s, 7))

extractBearerToken(authHeader) ==
    IF authHeader.isNull \/ Len(authHeader.s) = 0
       \/ ~StartsWith(authHeader.s, <<"B", "e", "a", "r", "e", "r", " ">>)
    THEN NullStr
    ELSE Str(Substring(authHeader.s, 7))

authenticateRequest(authHeader, t) ==
    LET token == extractBearerToken(authHeader)
    IN  IF token.isNull \/ Len(token.s) = 0
        THEN Thrown("Error", "No token provided")
        ELSE verifyToken(token.s, t)

(***************************************************************************)
(* Requests and responses.  A response body is a record of every key any   *)
(* handler sends; keys is the set of keys the JSON body really has.        *)
(***************************************************************************)
NoUser == [id |-> <<>>, username |-> <<>>]

NoData == [name |-> <<>>, email |-> <<>>, messagePreview |-> <<>>, submittedBy |-> <<>>]

EmptyBody == [keys |-> {}, error |-> "", message |-> "", details |-> <<>>,
              token |-> <<>>, user |-> NoUser, data |-> NoData,
              receivedData |-> JOther("none")]

NoBody == JOther("none")

NoReq == [endpoint |-> "none", auth |-> NullStr, body |-> NoBody]

NoResp == [status |-> 0, body |-> EmptyBody, steps |-> <<>>]

Response(status, body, done) == [status |-> status, body |-> body, steps |-> done]

(***************************************************************************)
(* app/api/auth/login/route.ts                                             *)
(***************************************************************************)
MOCK_USERS ==
    <<[id |-> <<"1">>, username |-> <<"d", "e", "m", "o">>,
       password |-> <<"d", "e", "m", "o", "1", "2", "3">>],
      [id |-> <<"2">>, username |-> <<"t", "e", "s", "t", "u", "s", "e", "r">>,
       password |-> <<"t", "e", "s", "t", "1", "2", "3">>]>>

\* find matching on the username alone
FindUser_UsernameOnly(username, password) ==
    LET hits == {i \in 1..Len(accounts) : accounts[i].username = username}
    IN  IF hits = {} THEN 0 ELSE CHOOSE i \in hits : \A j \in hits : i <= j

\* find with || in place of &&
FindUser_EitherField(username, password) ==
    LET hits == {i \in 1..Len(accounts) :
                    accounts[i].username = username \/ accounts[i].password = password}
    IN  IF hits = {} THEN 0 ELSE CHOOSE i \in hits : \A j \in hits : i <= j

\* MOCK_USERS.find(u => u.username === username && u.password === password):
\* the index of the first match, 0 when there is none
FindUser(username, password) ==
    LET hits == {i \in 1..Len(accounts) :
                    accounts[i].username = username /\ accounts[i].password = password}
    IN  IF hits = {} THEN 0 ELSE CHOOSE i \in hits : \A j \in hits : i <= j

\* POST /login answering an unreadable body as the hello route does
LoginPOST_InvalidJson(r, t) ==
    IF r.body.kind = "unparseable"
    THEN Response(400, [EmptyBody EXCEPT !.keys = {"error"}, !.error = "Invalid JSON"],
                  <<"json">>)
    ELSE LET validationResult == SafeParse(loginSchema, r.body)
         IN  IF ~validationResult.success
             THEN Response(400, [EmptyBody EXCEPT !.keys = {"error", "details"},
                                                  !.error = "Validation failed",
                                                  !.details = validationResult.fieldErrors],
                           <<"json", "safeParse">>)
             ELSE LET u == FindUser(r.body.f.username.s, r.body.f.password.s)
                  IN  IF u = 0
                      THEN Response(401, [EmptyBody EXCEPT !.keys = {"error"},
                                                           !.error = "Invalid credentials"],
                                    <<"json", "safeParse", "find">>)
                      ELSE Response(200,
                                    [EmptyBody EXCEPT
                                        !.keys = {"success", "token", "user"},
                                        !.token = signToken([userId |-> accounts[u].id,
                                                             username |-> accounts[u].username], t),
                                        !.user = [id |-> accounts[u].id,
                                                  username |-> accounts[u].username]],
                                    <<"json", "safeParse", "find", "signToken">>)

\* POST /login: the response to a request handled at clock time t
\* POST /login signing the account's password in place of its username
LoginPOST_PasswordInToken(r, t) ==
    IF r.body.kind = "unparseable"
    THEN Response(500, [EmptyBody EXCEPT !.keys = {"error"}, !.error = "Internal server error"],
                  <<"json">>)
    ELSE LET validationResult == SafeParse(loginSchema, r.body)
         IN  IF ~validationResult.success
             THEN Response(400, [EmptyBody EXCEPT !.keys = {"error", "details"},
                                                  !.error = "Validation failed",
                                                  !.details = validationResult.fieldErrors],
                           <<"json", "safeParse">>)
             ELSE LET u == FindUser(r.body.f.username.s, r.body.f.password.s)
                  IN  IF u = 0
                      THEN Response(401, [EmptyBody EXCEPT !.keys = {"error"},
                                                           !.error = "Invalid credentials"],
                                    <<"json", "safeParse", "find">>)
                      ELSE Response(200,
                                    [EmptyBody EXCEPT
                                        !.keys = {"success", "token", "user"},
                                        !.token = signToken([userId |-> accounts[u].id,
                                                             username |-> accounts[u].password], t),
                                        !.user = [id |-> accounts[u].id,
                                                  username |-> accounts[u].username]],
                                    <<"json", "safeParse", "find", "signToken">>)

LoginPOST(r, t) ==
    IF r.body.kind = "unparseable"
    THEN Response(500, [EmptyBody EXCEPT !.keys = {"error"}, !.error = "Internal server error"],
                  <<"json">>)
    ELSE LET validationResult == SafeParse(loginSchema, r.body)
         IN  IF ~validationResult.success
             THEN Response(400, [EmptyBody EXCEPT !.keys = {"error", "details"},
                                                  !.error = "Validation failed",
                                                  !.details = validationResult.fieldErrors],
                           <<"json", "safeParse">>)
             ELSE LET u == FindUser(r.body.f.username.s, r.body.f.password.s)
                  IN  IF u = 0
                      THEN Response(401, [EmptyBody EXCEPT !.keys = {"error"},
                                                           !.error = "Invalid credentials"],
                                    <<"json", "safeParse", "find">>)
                      ELSE Response(200,
                                    [EmptyBody EXCEPT
                                        !.keys = {"success", "token", "user"},
                                        !.token = signToken([userId |-> accounts[u].id,
                                                             username |-> accounts[u].username], t),
                                        !.user = [id |-> accounts[u].id,
                                                  username |-> accounts[u].username]],
                                    <<"json", "safeParse", "find", "signToken">>)

(***************************************************************************)
(* app/api/messages/route.ts                                               *)
(***************************************************************************)
\* the preview cut when the message has 50 characters or more
MessagePreview_CutsAtFifty(message) ==
    SubSeq(message, 1, IF Len(message) < 50 THEN Len(message) ELSE 50)
        \o (IF Len(message) >= 50 THEN <<".", ".", ".">> ELSE <<>>)

\* message.substring(0, 50) + (message.length > 50 ? '...' : '')
MessagePreview(message) ==
    SubSeq(message, 1, IF Len(message) < 50 THEN Len(message) ELSE 50)
        \o (IF Len(message) > 50 THEN <<".", ".", ".">> ELSE <<>>)

\* POST /messages reading and validating the body before authenticating
MessagesPOST_ValidateFirst(r, t) ==
    LET user == authenticateRequest(r.auth, t)
        validationResult == SafeParse(messageSchema, r.body)
    IN  IF r.body.kind = "unparseable"
        THEN Response(500, [EmptyBody EXCEPT
                               !.keys = {"error", "message"},
                               !.error = "Internal server error",
                               !.message = "An unexpected error occurred while processing your message"],
                      <<"json">>)
        ELSE IF ~validationResult.success
        THEN Response(400, [EmptyBody EXCEPT !.keys = {"error", "details"},
                                             !.error = "Validation failed",
                                             !.details = validationResult.fieldErrors],
                      <<"json", "safeParse">>)
        ELSE IF ~user.ok
        THEN Response(401, [EmptyBody EXCEPT !.keys = {"error", "message"},
                                             !.error = "Unauthorized",
                                             !.message = user.message],
                      <<"json", "safeParse", "authenticateRequest">>)
        ELSE Response(200,
                      [EmptyBody EXCEPT
                          !.keys = {"success", "message", "data"},
                          !.message = "Message received successfully",
                          !.data = [name |-> r.body.f.name.s,
                                    email |-> r.body.f.email.s,
                                    messagePreview |-> MessagePreview(r.body.f.message.s),
                                    submittedBy |-> user.payload.username]],
                      <<"json", "safeParse", "authenticateRequest", "accept">>)

\* POST /messages: the response to a request handled at clock time t
MessagesPOST(r, t) ==
    LET user == authenticateRequest(r.auth, t)
    IN  IF ~user.ok
        THEN Response(401, [EmptyBody EXCEPT !.keys = {"error", "message"},
                                             !.error = "Unauthorized",
                                             !.message = user.message],
                      <<"authenticateRequest">>)
        ELSE IF r.body.kind = "unparseable"
        THEN Response(500, [EmptyBody EXCEPT
                               !.keys = {"error", "message"},
                               !.error = "Internal server error",
                               !.message = "An unexpected error occurred while processing your message"],
                      <<"authenticateRequest", "json">>)
        ELSE LET validationResult == SafeParse(messageSchema, r.body)
             IN  IF ~validationResult.success
                 THEN Response(400, [EmptyBody EXCEPT !.keys = {"error", "details"},
                                                      !.error = "Validation failed",
                                                      !.details = validationResult.fieldErrors],
                               <<"authenticateRequest", "json", "safeParse">>)
                 ELSE Response(200,
                               [EmptyBody EXCEPT
                                   !.keys = {"success", "message", "data"},
                                   !.message = "Message received successfully",
                                   !.data = [name |-> r.body.f.name.s,
                                             email |-> r.body.f.email.s,
                                             messagePreview |-> MessagePreview(r.body.f.message.s),
                                             submittedBy |-> user.payload.username]],
                               <<"authenticateRequest", "json", "safeParse", "accept">>)

\* GET /messages returning the list without authenticating
MessagesGET_NoAuth(r, t) ==
    Response(200, [EmptyBody EXCEPT !.keys = {"success", "messages"}], <<"list">>)

\* GET /messages: the response to a request handled at clock time t
MessagesGET(r, t) ==
    LET user == authenticateRequest(r.auth, t)
    IN  IF ~user.ok
        THEN Response(401, [EmptyBody EXCEPT !.keys = {"error"}, !.error = "Unauthorized"],
                      <<"authenticateRequest">>)
        ELSE Response(200, [EmptyBody EXCEPT !.keys = {"success", "messages"},
                                             !.data = [NoData EXCEPT
                                                          !.submittedBy = user.payload.username]],
                      <<"authenticateRequest", "list">>)

(***************************************************************************)
(* JSON text: JSON.stringify of an object of strings on the client and     *)
(* request.json() of that text on the server.                              *)
(***************************************************************************)
\* the characters of the property names the client sends
KeyChars ==
    [name |-> <<"n", "a", "m", "e">>,
     email |-> <<"e", "m", "a", "i", "l">>,
     message |-> <<"m", "e", "s", "s", "a", "g", "e">>,
     username |-> <<"u", "s", "e", "r", "n", "a", "m", "e">>,
     password |-> <<"p", "a", "s", "s", "w", "o", "r", "d">>]

Quote == "\""

Backslash == "\\"

Newline == "\n"

\* the characters left as they are between the quotes
JsonEscape_Raw(s) == s

\* the characters of a string between the quotes of its JSON literal
RECURSIVE JsonEscape(_)
JsonEscape(s) ==
    IF s = <<>> THEN <<>>
    ELSE (CASE Head(s) \in {Quote, Backslash} -> <<Backslash, Head(s)>>
            [] Head(s) = Newline -> <<Backslash, "n">>
            [] OTHER -> <<Head(s)>>)
         \o JsonEscape(Tail(s))

JsonLiteral(s) == <<Quote>> \o JsonEscape(s) \o <<Quote>>

RECURSIVE JsonMembers(_, _)
JsonMembers(obj, keys) ==
    IF keys = <<>> THEN <<>>
    ELSE JsonLiteral(KeyChars[Head(keys)]) \o <<":">> \o JsonLiteral(obj[Head(keys)])
         \o (IF Len(keys) > 1 THEN <<",">> ELSE <<>>)
         \o JsonMembers(obj, Tail(keys))

\* JSON.stringify of an object whose values are strings, keys in source order
JsonStringify(obj, keys) == <<"{">> \o JsonMembers(obj, keys) \o <<"}">>

NoLiteral == [ok |-> FALSE, value |-> <<>>, next |-> 0]

\* JSON.parse of a string literal whose characters start at text[i]: its
\* value and the position after the closing quote
RECURSIVE ReadLiteral(_, _, _)
ReadLiteral(text, i, acc) ==
    IF i > Len(text) THEN NoLiteral
    ELSE CASE text[i] = Quote -> [ok |-> TRUE, value |-> acc, next |-> i + 1]
           [] text[i] = Newline -> NoLiteral
           [] text[i] = Backslash ->
                IF i + 1 > Len(text) THEN NoLiteral
                ELSE CASE text[i + 1] \in {Quote, Backslash} ->
                            ReadLiteral(text, i + 2, Append(acc, text[i + 1]))
                       [] text[i + 1] = "n" -> ReadLiteral(text, i + 2, Append(acc, Newline))
                       [] OTHER -> NoLiteral
           [] OTHER -> ReadLiteral(text, i + 1, Append(acc, text[i]))

NoMembers == [ok |-> FALSE, f |-> <<>>]

\* JSON.parse of the members of an object of strings, the first starting
\* at text[i]; a repeated key keeps its last value
RECURSIVE ReadMembers(_, _, _)
ReadMembers(text, i, f) ==
    IF i > Len(text) \/ text[i] # Quote THEN NoMembers
    ELSE LET key == ReadLiteral(text, i + 1, <<>>)
         IN  IF ~key.ok \/ key.next + 1 > Len(text)
                \/ text[key.next] # ":" \/ text[key.next + 1] # Quote
             THEN NoMembers
             ELSE LET val == ReadLiteral(text, key.next + 2, <<>>)
                      g == [k \in DOMAIN f \cup {key.value} |->
                              IF k = key.value THEN val.value ELSE f[k]]
                  IN  IF ~val.ok \/ val.next > Len(text) THEN NoMembers
                      ELSE CASE text[val.next] = "," -> ReadMembers(text, val.next + 1, g)
                             [] text[val.next] = "}" /\ val.next = Len(text) ->
                                  [ok |-> TRUE, f |-> g]
                             [] OTHER -> NoMembers

\* request.json() of a text, seen through the keys a schema reads
JsonParse(text, keys) ==
    IF Len(text) < 2 \/ text[1] # "{" THEN JOther("unparseable")
    ELSE LET members == IF Len(text) = 2 /\ text[2] = "}"
                        THEN [ok |-> TRUE, f |-> <<>>]
                        ELSE ReadMembers(text, 2, <<>>)
         IN  IF ~members.ok THEN JOther("unparseable")
             ELSE JObject([k \in keys |->
                             IF KeyChars[k] \in DOMAIN members.f
                             THEN JStr(members.f[KeyChars[k]])
                             ELSE JUndefined])

(***************************************************************************)
(* The contact form page: the form state and its reducer.                  *)
(***************************************************************************)
FieldNames == {"name", "email", "message"}

\* an entry of errors: no such key, a key holding undefined, a message
Absent == [present |-> FALSE, value |-> ""]

Undefined == [present |-> TRUE, value |-> ""]

Message(m) == [present |-> TRUE, value |-> m]

\* a value of type string | null holding a message
NoError == [isNull |-> TRUE, s |-> ""]

Error(m) == [isNull |-> FALSE, s |-> m]

NoErrors == [k \in FieldNames |-> Absent]

initialState ==
    [name |-> <<>>, email |-> <<>>, message |-> <<>>,
     errors |-> NoErrors,
     isSubmitting |-> FALSE, submitSuccess |-> FALSE, submitError |-> NoError]

\* the reducer with SET_FIELD clearing every entry of errors
formReducer_ClearsAllErrors(s, action) ==
    CASE action.type = "SET_FIELD" ->
            [s EXCEPT ![action.field] = action.value,
                      !.errors = NoErrors,
                      !.submitError = NoError]
      [] action.type = "SET_ERRORS" -> [s EXCEPT !.errors = action.errors]
      [] action.type = "CLEAR_ERRORS" -> [s EXCEPT !.errors = NoErrors]
      [] action.type = "SET_SUBMITTING" -> [s EXCEPT !.isSubmitting = action.isSubmitting]
      [] action.type = "SUBMIT_SUCCESS" ->
            [s EXCEPT !.isSubmitting = FALSE, !.submitSuccess = TRUE, !.submitError = NoError]
      [] action.type = "SUBMIT_ERROR" ->
            [s EXCEPT !.isSubmitting = FALSE, !.submitSuccess = FALSE,
                      !.submitError = Error(action.error)]
      [] action.type = "RESET_FORM" -> initialState
      [] OTHER -> s

\* the reducer with SUBMIT_ERROR leaving submitSuccess as it was
formReducer_ErrorKeepsSuccess(s, action) ==
    CASE action.type = "SET_FIELD" ->
            [s EXCEPT ![action.field] = action.value,
                      !.errors = [s.errors EXCEPT ![action.field] = Undefined],
                      !.submitError = NoError]
      [] action.type = "SET_ERRORS" -> [s EXCEPT !.errors = action.errors]
      [] action.type = "CLEAR_ERRORS" -> [s EXCEPT !.errors = NoErrors]
      [] action.type = "SET_SUBMITTING" -> [s EXCEPT !.isSubmitting = action.isSubmitting]
      [] action.type = "SUBMIT_SUCCESS" ->
            [s EXCEPT !.isSubmitting = FALSE, !.submitSuccess = TRUE, !.submitError = NoError]
      [] action.type = "SUBMIT_ERROR" ->
            [s EXCEPT !.isSubmitting = FALSE, !.submitError = Error(action.error)]
      [] action.type = "RESET_FORM" -> initialState
      [] OTHER -> s

formReducer(s, action) ==
    CASE action.type = "SET_FIELD" ->
            [s EXCEPT ![action.field] = action.value,
                      !.errors = [s.errors EXCEPT ![action.field] = Undefined],
                      !.submitError = NoError]
      [] action.type = "SET_ERRORS" -> [s EXCEPT !.errors = action.errors]
      [] action.type = "CLEAR_ERRORS" -> [s EXCEPT !.errors = NoErrors]
      [] action.type = "SET_SUBMITTING" -> [s EXCEPT !.isSubmitting = action.isSubmitting]
      [] action.type = "SUBMIT_SUCCESS" ->
            [s EXCEPT !.isSubmitting = FALSE, !.submitSuccess = TRUE, !.submitError = NoError]
      [] action.type = "SUBMIT_ERROR" ->
            [s EXCEPT !.isSubmitting = FALSE, !.submitSuccess = FALSE,
                      !.submitError = Error(action.error)]
      [] action.type = "RESET_FORM" -> initialState
      [] OTHER -> s

\* the state after the actions dispatched by one event handler, in order
RECURSIVE Dispatch(_, _)
Dispatch(s, actions) ==
    IF actions = <<>> THEN s ELSE Dispatch(formReducer(s, Head(actions)), Tail(actions))

\* the useState hooks of the page
initialPage ==
    [token |-> NullStr,
     loginUsername |-> <<"d", "e", "m", "o">>,
     loginPassword |-> <<"d", "e", "m", "o", "1", "2", "3">>,
     loginError |-> NoError]

\* formData of handleSubmit
FormData(s) == [name |-> s.name, email |-> s.email, message |-> s.message]

\* messageSchema.parse(formData): whether it returns, and the fieldErrors
\* the catch block builds from the issues (a later issue of a field
\* overwrites an earlier one)
ClientParse(formData) ==
    LET result == SafeParse(messageSchema, JObject([k \in FieldNames |-> JStr(formData[k])]))
    IN  [success |-> result.success,
         fieldErrors |-> [k \in FieldNames |->
                            IF k \in DOMAIN result.fieldErrors
                            THEN Message(result.fieldErrors[k][Len(result.fieldErrors[k])])
                            ELSE Absent]]

(***************************************************************************)
(* csharp-api-example/Program.cs: the data annotations of the request      *)
(* models and the login endpoint.  A JSON body is bound to the model       *)
(* class: an absent property keeps its initializer string.Empty, a value   *)
(* that is not a string fails the binding.                                 *)
(***************************************************************************)
Whitespace == {" ", Newline}

\* [Required]: not null, and not empty or white space only
Required(s) == \E i \in 1..Len(s) : s[i] \notin Whitespace

\* [StringLength(maximumLength, MinimumLength = minimumLength)]
StringLength(s, maximumLength, minimumLength) ==
    Len(s) >= minimumLength /\ Len(s) <= maximumLength

\* [EmailAddress]: exactly one '@', neither first nor last
EmailAddress(s) ==
    LET at == {i \in 1..Len(s) : s[i] = "@"}
    IN  /\ Cardinality(at) = 1
        /\ 1 \notin at
        /\ Len(s) \notin at
        /\ \A i \in 1..Len(s) : s[i] # Newline

\* whether the body deserializes into a model class with these properties
Binds(body, properties) ==
    /\ body.kind = "object"
    /\ \A k \in properties : body.f[k].t \in {"string", "undefined"}

\* the value of a property of the bound model
Property(body, k) == IF body.f[k].t = "string" THEN body.f[k].s ELSE <<>>

\* the data annotations of MessageRequest, all satisfied
MessageRequest(body) ==
    /\ Binds(body, {"name", "email", "message"})
    /\ Required(Property(body, "name"))
    /\ StringLength(Property(body, "name"), 100, 2)
    /\ Required(Property(body, "email"))
    /\ EmailAddress(Property(body, "email"))
    /\ Required(Property(body, "message"))
    /\ StringLength(Property(body, "message"), 1000, 10)

\* MapPost("/api/auth/login"): the status and the user of the response; the
\* handler runs on every body that binds to LoginRequest
CsLogin(body) ==
    IF ~Binds(body, {"username", "password"})
    THEN [status |-> 400, token |-> FALSE, user |-> NoUser]
    ELSE IF /\ Property(body, "username") = <<"d", "e", "m", "o">>
            /\ Property(body, "password") = <<"d", "e", "m", "o", "1", "2", "3">>
    THEN [status |-> 200, token |-> TRUE,
          user |-> [id |-> <<"1">>, username |-> Property(body, "username")]]
    ELSE [status |-> 401, token |-> FALSE, user |-> NoUser]

\* request.Message.Length > 50 ? request.Message.Substring(0, 50) + "..."
\*                              : request.Message
CsPreview(message) ==
    IF Len(message) > 50 THEN SubSeq(message, 1, 50) \o <<".", ".", ".">> ELSE message

\* MapPost("/api/messages") behind [Authorize]: r.auth is the name of the
\* principal the JwtBearer middleware established (null: none, the request
\* is challenged); the handler runs on every body that binds
CsMessagesPOST(r) ==
    IF r.auth.isNull
    THEN Response(401, EmptyBody, <<"Authorize">>)
    ELSE IF ~Binds(r.body, {"name", "email", "message"})
    THEN Response(400, EmptyBody, <<"Authorize", "bind">>)
    ELSE Response(200,
                  [EmptyBody EXCEPT
                      !.keys = {"success", "message", "data"},
                      !.message = "Message received successfully",
                      !.data = [name |-> Property(r.body, "name"),
                                email |-> Property(r.body, "email"),
                                messagePreview |-> CsPreview(Property(r.body, "message")),
                                submittedBy |-> r.auth.s]],
                  <<"Authorize", "bind", "handler">>)

(***************************************************************************)
(* app/api/hello/route.ts                                                  *)
(***************************************************************************)
HelloGET ==
    Response(200, [EmptyBody EXCEPT !.keys = {"message", "timestamp", "info"},
                                    !.message = "Hello from the API!"],
             <<>>)

\* POST /hello without the catch around request.json()
HelloPOST_NoCatch(r) ==
    IF r.body.kind \in {"unparseable", "none"}
    THEN Response(500, EmptyBody, <<"json">>)
    ELSE Response(200, [EmptyBody EXCEPT !.keys = {"message", "receivedData", "timestamp"},
                                         !.message = "Data received successfully",
                                         !.receivedData = r.body],
                  <<"json">>)

\* POST /hello: request.json() throws on a body that is no JSON text, an
\* empty body included
HelloPOST(r) ==
    IF r.body.kind \in {"unparseable", "none"}
    THEN Response(400, [EmptyBody EXCEPT !.keys = {"error"}, !.error = "Invalid JSON"],
                  <<"json">>)
    ELSE Response(200, [EmptyBody EXCEPT !.keys = {"message", "receivedData", "timestamp"},
                                         !.message = "Data received successfully",
                                         !.receivedData = r.body],
                  <<"json">>)

(***************************************************************************)
(* The inputs of the model: request bodies and Authorization headers.      *)
(***************************************************************************)
Usernames == {MOCK_USERS[1].username, MOCK_USERS[2].username, <<>>, <<"d", "e">>, <<"d", "e", "m">>,
              <<"D", "e", "m", "o">>, <<"d", "e", "m", "o", "x">>}

Passwords == {MOCK_USERS[1].password, MOCK_USERS[2].password, <<>>, <<"d", "e", "m", "o", "1">>, <<"d", "e", "m", "o", "1", "2">>,
              <<"D", "E", "M", "O", "1", "2", "3">>}

LoginBodies ==
    {JObject([username |-> u, password |-> p]) :
        u \in {JStr(s) : s \in Usernames} \cup {JNum, JUndefined},
        p \in {JStr(s) : s \in Passwords} \cup {JNum, JUndefined}}
    \cup {JOther("null"), JOther("array"), JOther("unparseable")}

MessageBody(name, email, message) == JObject([name |-> name, email |-> email, message |-> message])

ValidMessage == MessageBody(JStr(<<"J", "o">>), JStr(<<"a", "@", "b", ".", "c", "o", "m">>), JStr(<<"t", "h", "i", "s", " ", "i", "s", " ", "a", " ", "l", "o", "n", "g", " ", "e", "n", "o", "u", "g", "h", " ", "m", "e", "s", "s", "a", "g", "e">>))

InvalidMessage == MessageBody(JStr(<<"A">>), JStr(<<"x", "@", "x">>), JStr(<<"s", "h", "o", "r", "t">>))

HiMessage == MessageBody(JUndefined, JUndefined, JStr(<<"h", "i">>))

MessageBodies == {ValidMessage, InvalidMessage, HiMessage, JOther("null"), JOther("unparseable")}

BearerPrefix == <<"B", "e", "a", "r", "e", "r", " ">>

\* one character of an issued token changed
Flip(c) == IF c = "0" THEN "1" ELSE "0"

Altered(tok) == {[tok EXCEPT ![i] = Flip(tok[i])] : i \in 1..Len(tok)}

\* the claims of one token under the signature of another
Spliced(a, b) ==
    LET pa == Split(a, ".")
        pb == Split(b, ".")
    IN  pa[1] \o <<".">> \o pa[2] \o <<".">> \o pb[3]

\* an issued token without its signature, and without its signature segment
Stripped(tok) ==
    LET parts == Split(tok, ".")
    IN  {parts[1] \o <<".">> \o parts[2] \o <<".">>, parts[1] \o <<".">> \o parts[2]}

\* a token made without the secret, for an account of the list
Forged(t) == {JwtSign([userId |-> MOCK_USERS[i].id, username |-> MOCK_USERS[i].username],
                      "X", ExpiresInSeconds, t) : i \in 1..Len(MOCK_USERS)}

TamperedTokens(tokens, t) ==
    (UNION {Altered(tok) \cup Stripped(tok) : tok \in tokens}
       \cup {Spliced(a, b) : a \in tokens, b \in tokens}
       \cup Forged(t) \cup {<<"g", "a", "r", "b", "a", "g", "e">>}) \ tokens

\* header shapes that carry no bearer token
OtherHeaders(tokens) ==
    {NullStr, Str(<<>>), Str(<<"B", "e", "a", "r", "e", "r">>), Str(BearerPrefix)}
    \cup {Str(p \o tok) : p \in {<<"b", "e", "a", "r", "e", "r", " ">>, <<"B", "E", "A", "R", "E", "R", " ">>, <<"B", "a", "s", "i", "c", " ">>, <<"T", "o", "k", "e", "n", " ">>, <<" ", "B", "e", "a", "r", "e", "r", " ">>},
                          tok \in tokens}

BearerHeaders(tokens) == {Str(BearerPrefix \o tok) : tok \in tokens}

Headers(tokens, t) ==
    OtherHeaders(tokens) \cup BearerHeaders(tokens) \cup BearerHeaders(TamperedTokens(tokens, t))

(***************************************************************************)
(* The system: a clock, the tokens clients hold, and one request at a      *)
(* time handled by one of the three route handlers.                        *)
(***************************************************************************)
TickSteps == {1, ExpiresInSeconds - 1}

Init ==
    /\ now = 0
    /\ ticks = 0
    /\ issued = {}
    /\ req = NoReq
    /\ resp = NoResp
    /\ accounts = MOCK_USERS
    /\ state = initialState
    /\ page = initialPage
    /\ caller = "none"
    /\ timers = 0

Idle == req.endpoint = "none"

Tick ==
    /\ Idle
    /\ ticks < MaxTicks
    /\ \E d \in TickSteps : now' = now + d
    /\ ticks' = ticks + 1
    /\ UNCHANGED <<issued, req, resp, accounts, state, page, caller, timers>>

\* the tokens clients hold
Tokens == {i.token : i \in issued}

\* a client keeps what the login response gave it; at is the time of issue
Issue(out, t) == [token |-> out.body.token, user |-> out.body.user, at |-> t]

\* POST /login dropping from the list the account of a failed attempt
Login_DropsAccount ==
    /\ Idle
    /\ \E b \in LoginBodies :
          LET r == [endpoint |-> "POST /login", auth |-> NullStr, body |-> b]
              out == LoginPOST(r, now)
          IN  /\ out.status = 200 => Cardinality(issued \cup {Issue(out, now)}) <= MaxTokens
              /\ req' = r
              /\ resp' = out
              /\ issued' = IF out.status = 200 THEN issued \cup {Issue(out, now)} ELSE issued
              /\ accounts' = IF out.status = 401
                             THEN SelectSeq(accounts, LAMBDA u : u.username # b.f.username.s)
                             ELSE accounts
    /\ UNCHANGED <<now, ticks, state, page, caller, timers>>

Login ==
    /\ Idle
    /\ \E b \in LoginBodies :
          LET r == [endpoint |-> "POST /login", auth |-> NullStr, body |-> b]
              out == LoginPOST(r, now)
          IN  /\ out.status = 200 => Cardinality(issued \cup {Issue(out, now)}) <= MaxTokens
              /\ req' = r
              /\ resp' = out
              /\ issued' = IF out.status = 200 THEN issued \cup {Issue(out, now)} ELSE issued
    /\ UNCHANGED <<now, ticks, accounts, state, page, caller, timers>>

PostMessages ==
    /\ Idle
    /\ \E h \in Headers(Tokens, now), b \in MessageBodies :
          LET r == [endpoint |-> "POST /messages", auth |-> h, body |-> b]
          IN  /\ req' = r
              /\ resp' = MessagesPOST(r, now)
    /\ UNCHANGED <<now, ticks, issued, accounts, state, page, caller, timers>>

GetMessages ==
    /\ Idle
    /\ \E h \in Headers(Tokens, now) :
          LET r == [endpoint |-> "GET /messages", auth |-> h, body |-> NoBody]
          IN  /\ req' = r
              /\ resp' = MessagesGET(r, now)
    /\ UNCHANGED <<now, ticks, issued, accounts, state, page, caller, timers>>

\* the response has been sent; the handler holds nothing of the request
Complete ==
    /\ ~Idle
    /\ req' = NoReq
    /\ resp' = NoResp
    /\ UNCHANGED <<now, ticks, issued, accounts, state, page, caller, timers>>

Next == Tick \/ Login \/ PostMessages \/ GetMessages \/ Complete

Spec == Init /\ [][Next]_vars

(***************************************************************************)
(* The contact form page as a client of the route handlers: its event      *)
(* handlers, and the continuations of handleLogin and handleSubmit after   *)
(* their fetch has settled.  One fetch is outstanding at a time.  The page  *)
(* keeps its token in page.token.                                          *)
(***************************************************************************)
\* the page stays open for the validity of a token
Wait ==
    /\ Idle
    /\ ticks < MaxWaits
    /\ now' = now + ExpiresInSeconds
    /\ ticks' = ticks + 1
    /\ UNCHANGED <<issued, req, resp, accounts, state, page, caller, timers>>

LoginUsernames == {MOCK_USERS[1].username, MOCK_USERS[2].username}

LoginPasswords == {MOCK_USERS[1].password, MOCK_USERS[2].password}

FieldValues ==
    [name |-> {<<"J", "o">>, <<"A">>},
     email |-> {<<"a", "@", "b", ".", "c", "o", "m">>, <<"x", "@", "x">>},
     message |-> {ValidMessage.f.message.s,
                  <<"s", "a", "y", " ", Quote, "h", "i", Quote, Newline, "c", ":", Backslash, "n">>,
                  <<"s", "h", "o", "r", "t">>}]

\* the order of the keys of formData and of the login body
FieldOrder == <<"name", "email", "message">>

LoginOrder == <<"username", "password">>

\* {!token ? <login section> : <form section>}
LoginShown == page.token.isNull \/ page.token.s = <<>>

FormShown == ~LoginShown

SetLoginUsername ==
    /\ LoginShown
    /\ \E v \in LoginUsernames \ {page.loginUsername} :
          page' = [page EXCEPT !.loginUsername = v]
    /\ UNCHANGED <<now, ticks, issued, req, resp, accounts, state, caller, timers>>

SetLoginPassword ==
    /\ LoginShown
    /\ \E v \in LoginPasswords \ {page.loginPassword} :
          page' = [page EXCEPT !.loginPassword = v]
    /\ UNCHANGED <<now, ticks, issued, req, resp, accounts, state, caller, timers>>

\* handleLogin up to its await: the fetch, and the server's handling of it
HandleLogin ==
    /\ Idle
    /\ caller = "none"
    /\ LoginShown
    /\ LET text == JsonStringify([username |-> page.loginUsername,
                                  password |-> page.loginPassword], LoginOrder)
           r == [endpoint |-> "POST /login", auth |-> NullStr,
                 body |-> JsonParse(text, {"username", "password"})]
           out == LoginPOST(r, now)
       IN  /\ req' = r
           /\ resp' = out
    /\ page' = [page EXCEPT !.loginError = NoError]
    /\ caller' = "handleLogin"
    /\ UNCHANGED <<now, ticks, issued, accounts, state, timers>>

\* handleLogin after its await; the fetch may have rejected
LoginSettled ==
    /\ caller = "handleLogin"
    /\ \E delivered \in BOOLEAN :
          page' = IF ~delivered
                  THEN [page EXCEPT !.loginError = Error("Network error during login")]
                  ELSE IF resp.status # 200
                  THEN [page EXCEPT !.loginError =
                           Error(IF resp.body.error # "" THEN resp.body.error
                                 ELSE "Login failed")]
                  ELSE [page EXCEPT !.token = Str(resp.body.token)]
    /\ req' = NoReq
    /\ resp' = NoResp
    /\ caller' = "none"
    /\ UNCHANGED <<now, ticks, issued, accounts, state, timers>>

\* onChange of an input of the form (inputs are disabled while submitting)
SetField ==
    /\ FormShown
    /\ ~state.isSubmitting
    /\ \E k \in FieldNames :
          \E v \in FieldValues[k] :
             state' = formReducer(state, [type |-> "SET_FIELD", field |-> k, value |-> v])
    /\ UNCHANGED <<now, ticks, issued, req, resp, accounts, page, caller, timers>>

\* handleSubmit fetching without looking at the token
handleSubmit_SendsWithoutToken(s, tok) ==
    LET started == Dispatch(s, <<[type |-> "CLEAR_ERRORS"],
                                 [type |-> "SET_SUBMITTING", isSubmitting |-> TRUE]>>)
        formData == FormData(s)
        parsed == ClientParse(formData)
    IN  IF ~parsed.success
        THEN [state |-> Dispatch(started,
                           <<[type |-> "SET_ERRORS", errors |-> parsed.fieldErrors],
                             [type |-> "SET_SUBMITTING", isSubmitting |-> FALSE]>>),
              fetch |-> FALSE, request |-> NoReq]
        ELSE [state |-> started,
              fetch |-> TRUE,
              request |-> [endpoint |-> "POST /messages",
                           auth |-> Str(BearerPrefix \o (IF tok.isNull
                                                         THEN <<"n", "u", "l", "l">>
                                                         ELSE tok.s)),
                           body |-> JsonParse(JsonStringify(formData, FieldOrder), FieldNames)]]

\* handleSubmit up to its await, run on form state s with token tok: the
\* state after its dispatches, and the request when it fetches
handleSubmit(s, tok) ==
    LET started == Dispatch(s, <<[type |-> "CLEAR_ERRORS"],
                                 [type |-> "SET_SUBMITTING", isSubmitting |-> TRUE]>>)
        formData == FormData(s)
        parsed == ClientParse(formData)
    IN  IF ~parsed.success
        THEN [state |-> Dispatch(started,
                           <<[type |-> "SET_ERRORS", errors |-> parsed.fieldErrors],
                             [type |-> "SET_SUBMITTING", isSubmitting |-> FALSE]>>),
              fetch |-> FALSE, request |-> NoReq]
        ELSE IF tok.isNull \/ tok.s = <<>>
        THEN [state |-> Dispatch(started,
                           <<[type |-> "SUBMIT_ERROR", error |-> "Please login first"]>>),
              fetch |-> FALSE, request |-> NoReq]
        ELSE [state |-> started,
              fetch |-> TRUE,
              request |-> [endpoint |-> "POST /messages",
                           auth |-> Str(BearerPrefix \o tok.s),
                           body |-> JsonParse(JsonStringify(formData, FieldOrder), FieldNames)]]

\* the submit event of the form, and the server's handling of the fetch
HandleSubmit ==
    /\ Idle
    /\ caller = "none"
    /\ FormShown
    /\ ~state.isSubmitting
    /\ timers < MaxTimers
    /\ LET out == handleSubmit(state, page.token)
       IN  /\ state' = out.state
           /\ IF out.fetch
              THEN /\ req' = out.request
                   /\ resp' = MessagesPOST(out.request, now)
                   /\ caller' = "handleSubmit"
              ELSE UNCHANGED <<req, resp, caller>>
    /\ UNCHANGED <<now, ticks, issued, accounts, page, timers>>

\* handleSubmit after its await, without the catch of a rejected fetch
SubmitSettled_NoCatch ==
    /\ caller = "handleSubmit"
    /\ \E delivered \in BOOLEAN :
          IF ~delivered
          THEN /\ state' = state
               /\ timers' = timers
          ELSE IF resp.status # 200
          THEN /\ state' = formReducer(state,
                              [type |-> "SUBMIT_ERROR",
                               error |-> IF "message" \in resp.body.keys /\ resp.body.message # ""
                                         THEN resp.body.message
                                         ELSE "Failed to submit message"])
               /\ timers' = timers
          ELSE /\ state' = formReducer(state, [type |-> "SUBMIT_SUCCESS"])
               /\ timers' = timers + 1
    /\ req' = NoReq
    /\ resp' = NoResp
    /\ caller' = "none"
    /\ UNCHANGED <<now, ticks, issued, accounts, page>>

\* handleSubmit after its await; the fetch may have rejected
SubmitSettled ==
    /\ caller = "handleSubmit"
    /\ \E delivered \in BOOLEAN :
          IF ~delivered
          THEN /\ state' = formReducer(state, [type |-> "SUBMIT_ERROR",
                                               error |-> "An unexpected error occurred"])
               /\ timers' = timers
          ELSE IF resp.status # 200
          THEN /\ state' = formReducer(state,
                              [type |-> "SUBMIT_ERROR",
                               error |-> IF "message" \in resp.body.keys /\ resp.body.message # ""
                                         THEN resp.body.message
                                         ELSE "Failed to submit message"])
               /\ timers' = timers
          ELSE /\ state' = formReducer(state, [type |-> "SUBMIT_SUCCESS"])
               /\ timers' = timers + 1
    /\ req' = NoReq
    /\ resp' = NoResp
    /\ caller' = "none"
    /\ UNCHANGED <<now, ticks, issued, accounts, page>>

\* the callback of the timer dispatching CLEAR_ERRORS in place of RESET_FORM
TimerFires_ClearsErrorsOnly ==
    /\ timers > 0
    /\ state' = formReducer(state, [type |-> "CLEAR_ERRORS"])
    /\ timers' = timers - 1
    /\ UNCHANGED <<now, ticks, issued, req, resp, accounts, page, caller>>

\* the callback of setTimeout(..., 2000)
TimerFires ==
    /\ timers > 0
    /\ state' = formReducer(state, [type |-> "RESET_FORM"])
    /\ timers' = timers - 1
    /\ UNCHANGED <<now, ticks, issued, req, resp, accounts, page, caller>>

HandleLogout ==
    /\ FormShown
    /\ page' = [page EXCEPT !.token = NullStr]
    /\ state' = formReducer(state, [type |-> "RESET_FORM"])
    /\ UNCHANGED <<now, ticks, issued, req, resp, accounts, caller, timers>>

NextClient ==
    \/ Wait
    \/ SetLoginUsername
    \/ SetLoginPassword
    \/ HandleLogin
    \/ LoginSettled
    \/ SetField
    \/ HandleSubmit
    \/ SubmitSettled
    \/ TimerFires
    \/ HandleLogout

SpecClient == Init /\ [][NextClient]_vars

(***************************************************************************)
(* Properties.                                                             *)
(***************************************************************************)
Protected == req.endpoint \in {"POST /messages", "GET /messages"}

\* the request carries the header "Authorization: Bearer <tok>"
Presented(tok) == req.auth = Str(BearerPrefix \o tok)

\* the request carries some bearer token; BearerToken is that token
HasBearerToken ==
    /\ ~req.auth.isNull
    /\ Len(req.auth.s) > 7
    /\ \A i \in 1..7 : req.auth.s[i] = BearerPrefix[i]

BearerToken == [i \in 1..(Len(req.auth.s) - 7) |-> req.auth.s[i + 7]]

LoginOf(i) ==
    /\ req.endpoint = "POST /login"
    /\ req.body.kind = "object"
    /\ req.body.f.username = JStr(MOCK_USERS[i].username)
    /\ req.body.f.password = JStr(MOCK_USERS[i].password)

\* C1: logging in with an account's exact username and password returns 200
\* with a token that authenticateRequest accepts at every time before its
\* expiry, with claims carrying that account's id and username.
C1_LoginTokenAuthenticates ==
    /\ \A i \in 1..Len(MOCK_USERS) :
          LoginOf(i) =>
             /\ resp.status = 200
             /\ resp.body.user = [id |-> MOCK_USERS[i].id, username |-> MOCK_USERS[i].username]
             /\ \A t \in {now, now + 1, now + ExpiresInSeconds - 1} :
                   LET a == authenticateRequest(Str(BearerPrefix \o resp.body.token), t)
                   IN  /\ a.ok
                       /\ a.payload.userId = MOCK_USERS[i].id
                       /\ a.payload.username = MOCK_USERS[i].username
    /\ \A k \in issued :
          (Protected /\ Presented(k.token) /\ now < k.at + ExpiresInSeconds) =>
             /\ resp.status # 401
             /\ authenticateRequest(req.auth, now).payload.userId = k.user.id
             /\ authenticateRequest(req.auth, now).payload.username = k.user.username
             /\ resp.status = 200 => resp.body.data.submittedBy = k.user.username

C1_Witness ==
    /\ req.endpoint = "GET /messages"
    /\ resp.status = 200
    /\ \E k \in issued :
          /\ Presented(k.token)
          /\ k.at > 0
          /\ now = k.at + ExpiresInSeconds - 1
          /\ k.user.username = MOCK_USERS[2].username

StringPair ==
    /\ req.endpoint = "POST /login"
    /\ req.body.kind = "object"
    /\ req.body.f.username.t = "string"
    /\ req.body.f.password.t = "string"

MatchesAccount ==
    \E i \in 1..Len(MOCK_USERS) :
       /\ MOCK_USERS[i].username = req.body.f.username.s
       /\ MOCK_USERS[i].password = req.body.f.password.s

InvalidCredentials ==
    /\ resp.status = 401
    /\ resp.body.keys = {"error"}
    /\ resp.body.error = "Invalid credentials"
    /\ resp.body.token = <<>>

\* C2 as stated: every username/password pair that matches no account is
\* answered 401 {error: 'Invalid credentials'}, whatever the lengths of the fields.
C2_Original == (StringPair /\ ~MatchesAccount) => InvalidCredentials

\* C2: a pair of strings that matches no account is answered with the one
\* 401 {error: 'Invalid credentials'} body when the username has at least 3
\* and the password at least 6 characters, and otherwise with 400
\* 'Validation failed' whose details name exactly the too-short fields.
C2_UniformInvalidCredentials ==
    (StringPair /\ ~MatchesAccount) =>
        LET short == {k \in {"username"} : Len(req.body.f.username.s) < 3}
                     \cup {k \in {"password"} : Len(req.body.f.password.s) < 6}
        IN  IF short = {} THEN InvalidCredentials
            ELSE /\ resp.status = 400
                 /\ resp.body.error = "Validation failed"
                 /\ DOMAIN resp.body.details = short
                 /\ resp.body.token = <<>>

C2_Witness ==
    /\ StringPair
    /\ req.body.f.username.s = MOCK_USERS[1].username
    /\ Len(req.body.f.password.s) = 6
    /\ resp.status = 401

C4_ExpiredTokenRejected ==
    \A k \in issued :
       (Protected /\ Presented(k.token) /\ now >= k.at + ExpiresInSeconds) =>
          /\ resp.status = 401
          /\ ~authenticateRequest(req.auth, now).ok
          /\ authenticateRequest(req.auth, now).message
                # authenticateRequest(NullStr, now).message

C4_Witness ==
    /\ Protected
    /\ resp.status = 401
    /\ \E k \in issued : Presented(k.token) /\ now = k.at + ExpiresInSeconds

\* C5 as stated: the failure of authenticateRequest is 'No token provided'
\* when no bearer token can be extracted, 'Invalid token' for a token that
\* was not issued, and 'Token expired' for an issued token past its expiry.
C5_ThreeFailureKinds ==
    req.endpoint = "POST /messages" =>
        /\ ~HasBearerToken => resp.body.message = "No token provided"
        /\ (HasBearerToken /\ BearerToken \notin Tokens) => resp.body.message = "Invalid token"
        /\ \A k \in issued :
              (Presented(k.token) /\ now >= k.at + ExpiresInSeconds) =>
                  /\ resp.status = 401
                  /\ resp.body.message = "Token expired"

\* C6 as stated: on a protected endpoint every authentication failure is
\* answered 401 with the body the same request gets with no token at all.
C6_UniformUnauthorized ==
    (Protected /\ ~authenticateRequest(req.auth, now).ok) =>
        /\ resp.status = 401
        /\ resp.body = (IF req.endpoint = "POST /messages"
                        THEN MessagesPOST([req EXCEPT !.auth = NullStr], now).body
                        ELSE MessagesGET([req EXCEPT !.auth = NullStr], now).body)

\* C7: extractBearerToken returns the header without its first 7 characters
\* exactly when the header starts with 'Bearer ', and null otherwise; a
\* request fails with 'No token provided' exactly when its header is
\* absent, has another scheme or casing, or is 'Bearer ' with nothing after.
C7_BearerExtraction ==
    Protected =>
        LET e == extractBearerToken(req.auth)
            prefixed == /\ ~req.auth.isNull
                        /\ Len(req.auth.s) >= 7
                        /\ \A i \in 1..7 : req.auth.s[i] = BearerPrefix[i]
        IN  /\ prefixed => (~e.isNull /\ e.s = BearerToken)
            /\ ~prefixed => e = NullStr
            /\ ~HasBearerToken => resp.status = 401
            /\ req.endpoint = "POST /messages" =>
                  (resp.body.message = "No token provided" <=> ~HasBearerToken)

C7_Witness ==
    /\ req.endpoint = "POST /messages"
    /\ resp.body.message = "No token provided"
    /\ \E k \in issued :
          /\ now < k.at + ExpiresInSeconds
          /\ req.auth = Str(<<"b", "e", "a", "r", "e", "r", " ">> \o k.token)

\* C8: POST /messages authenticates before it reads or validates the body:
\* a request that fails authentication is answered 401 with the body
\* untouched, whatever the body is, and 200 is only sent after
\* authentication, parsing and validation succeeded in that order.
C8_AuthenticationFirst ==
    req.endpoint = "POST /messages" =>
        /\ Len(resp.steps) >= 1 /\ resp.steps[1] = "authenticateRequest"
        /\ ~authenticateRequest(req.auth, now).ok =>
              (resp.status = 401 /\ resp.steps = <<"authenticateRequest">>)
        /\ resp.status = 200 =>
              /\ resp.steps = <<"authenticateRequest", "json", "safeParse", "accept">>
              /\ authenticateRequest(req.auth, now).ok
              /\ req.body.kind = "object"
              /\ SafeParse(messageSchema, req.body).success
        /\ resp.status = 400 => authenticateRequest(req.auth, now).ok

C8_Witness ==
    /\ req.endpoint = "POST /messages"
    /\ req.body = InvalidMessage
    /\ HasBearerToken
    /\ resp.status = 401

(***************************************************************************)
(* The message schema on its own: message submissions whose fields are     *)
(* drawn from strings around the bounds of the rules, other types and      *)
(* absent keys, sent with the tokens clients hold.                         *)
(***************************************************************************)
NameLengths == {0, 1, 2, 3, 99, 100, 101}

MessageLengths == {0, 9, 10, 11, 50, 51, 999, 1000, 1001}

AddressesMatching == {<<"a", "@", "b", ".", "c", "o", "m">>, <<"a", "@", "b", "-", "c", ".", "c", "o", "m">>, <<"A", "_", "b", "+", "c", "@", "D", ".", "e", ".", "F", "G">>, <<"o", "'", "n", "@", "b", ".", "i", "o">>, <<"a", ".", "b", "@", "c", ".", "d", "e">>}

AddressesNotMatching == {<<"x", "@", "x">>,
                         <<>>,
                         <<"a", "b", ".", "c", "o", "m">>,
                         <<"a", "@", "b", "@", "c", ".", "c", "o", "m">>,
                         <<".", "a", "@", "b", ".", "c", "o", "m">>,
                         <<"a", ".", ".", "b", "@", "c", ".", "d", "e">>,
                         <<"a", ".", "@", "b", ".", "c", "o", "m">>,
                         <<"a", "@", "b", ".", "c">>,
                         <<"a", "@", "-", "b", ".", "c", "o", "m">>,
                         <<"a", "@", "b", ".", "c", "0", "m">>,
                         <<"a", " ", "b", "@", "c", ".", "d", "e">>,
                         <<"@", "b", ".", "c", "o", "m">>,
                         <<"a", "@", "b", ".", ".", "c", "o", "m">>,
                         <<"a", "@", ".", "c", "o", "m">>,
                         <<"a", "'", "@", "b", ".", "c", "o", "m">>}

SchemaNames == {JStr(Rep("n", k)) : k \in NameLengths} \cup {JStr(<<"A">>), JNum, JUndefined}

SchemaEmails == {JStr(s) : s \in AddressesMatching \cup AddressesNotMatching} \cup {JNum, JUndefined}

SchemaMessages ==
    {JStr(Rep("m", k)) : k \in MessageLengths}
    \cup {JStr(<<"s", "h", "o", "r", "t">>), JStr([i \in 1..60 |-> DigitChars[(i % 10) + 1]]),
          JNum, JUndefined}

SchemaBodies ==
    {MessageBody(n, e, m) : n \in SchemaNames, e \in SchemaEmails, m \in SchemaMessages}
    \cup {JOther("null"), JOther("array"), JOther("string")}

SubmitMessage ==
    /\ Idle
    /\ \E h \in BearerHeaders(Tokens), b \in SchemaBodies :
          LET r == [endpoint |-> "POST /messages", auth |-> h, body |-> b]
          IN  /\ req' = r
              /\ resp' = MessagesPOST(r, now)
    /\ UNCHANGED <<now, ticks, issued, accounts, state, page, caller, timers>>

NextSchema == Login \/ SubmitMessage \/ Complete

SpecSchema == Init /\ [][NextSchema]_vars

\* the request was authenticated and its body is a JSON object
Validated ==
    /\ req.endpoint = "POST /messages"
    /\ resp.status \in {200, 400}
    /\ req.body.kind = "object"

InRange(v, lo, hi) == v.t = "string" /\ Len(v.s) >= lo /\ Len(v.s) <= hi

\* C9: messageSchema accepts an object exactly when name is a string of 2
\* to 100 characters, email a string matching the address pattern and
\* message a string of 10 to 1000 characters, the bounds included.
C9_MessageSchemaBounds ==
    Validated =>
        /\ resp.status = 200 <=>
              /\ InRange(req.body.f.name, 2, 100)
              /\ req.body.f.email.t = "string" /\ IsEmail(req.body.f.email.s)
              /\ InRange(req.body.f.message, 10, 1000)
        /\ (req.body.f.email.t = "string" /\ req.body.f.email.s \in AddressesMatching)
              => "email" \notin DOMAIN resp.body.details
        /\ (req.body.f.email.t = "string" /\ req.body.f.email.s \in AddressesNotMatching)
              => "email" \in DOMAIN resp.body.details

C9_Witness ==
    /\ Validated
    /\ resp.status = 200
    /\ Len(req.body.f.name.s) = 100
    /\ Len(req.body.f.message.s) = 1000

\* a field of the body breaks its rule: it is absent, no string, too short,
\* too long or no address
Violates(body, k) ==
    \/ body.kind # "object"
    \/ body.f[k].t # "string"
    \/ k = "name" /\ ~InRange(body.f[k], 2, 100)
    \/ k = "email" /\ ~IsEmail(body.f[k].s)
    \/ k = "message" /\ ~InRange(body.f[k], 10, 1000)

\* C10 as stated: the details of a 400 response have an entry for a field
\* exactly when that field violates its rule or is missing.
C10_DetailsNameViolations ==
    (req.endpoint = "POST /messages" /\ resp.status = 400) =>
        \A k \in {"name", "email", "message"} :
           k \in DOMAIN resp.body.details <=> Violates(req.body, k)

(***************************************************************************)
(* Properties of the flows.                                                *)
(***************************************************************************)
\* C11: with a token obtained by logging in (and not yet expired), POST
\* /messages with a schema-valid payload returns 200 echoing the name and
\* email with submittedBy the account's username; without an Authorization
\* header it returns 401; with the token and {message: 'hi'} it returns
\* 400 with a field error on message.
C11_SubmitFlow ==
    req.endpoint = "POST /messages" =>
        /\ req.auth.isNull => resp.status = 401
        /\ \A k \in issued :
              (Presented(k.token) /\ now < k.at + ExpiresInSeconds) =>
                 /\ \E i \in 1..Len(MOCK_USERS) : k.user.username = MOCK_USERS[i].username
                 /\ req.body = ValidMessage =>
                       /\ resp.status = 200
                       /\ resp.body.data.name = ValidMessage.f.name.s
                       /\ resp.body.data.email = ValidMessage.f.email.s
                       /\ resp.body.data.submittedBy = k.user.username
                 /\ req.body = HiMessage =>
                       /\ resp.status = 400
                       /\ "message" \in DOMAIN resp.body.details
                       /\ Len(resp.body.details["message"]) >= 1

C11_Witness ==
    /\ req.endpoint = "POST /messages"
    /\ req.body = HiMessage
    /\ resp.status = 400
    /\ \E k \in issued : Presented(k.token) /\ k.user.username = MOCK_USERS[1].username

\* C12: the login flow is validate, match, sign: a token is signed only
\* after the body passed loginSchema and an account matched both fields,
\* a response with status 400, 401 or 500 carries no token, and every
\* login request ends in exactly one of 200, 400, 401, 500.
C12_LoginLinear ==
    req.endpoint = "POST /login" =>
        /\ resp.status \in {200, 400, 401, 500}
        /\ resp.status = 200 =>
              /\ resp.steps = <<"json", "safeParse", "find", "signToken">>
              /\ StringPair
              /\ Len(req.body.f.username.s) >= 3
              /\ Len(req.body.f.password.s) >= 6
              /\ MatchesAccount
              /\ "token" \in resp.body.keys
              /\ resp.body.token # <<>>
        /\ resp.status # 200 =>
              /\ "token" \notin resp.body.keys
              /\ resp.body.token = <<>>
              /\ \A i \in 1..Len(resp.steps) : resp.steps[i] # "signToken"
        /\ resp.status = 401 => resp.steps = <<"json", "safeParse", "find">>
        /\ resp.status = 400 => resp.steps = <<"json", "safeParse">>
        /\ resp.status = 500 => resp.steps = <<"json">>

C12_Witness ==
    /\ LoginOf(2)
    /\ resp.status = 200
    /\ resp.steps = <<"json", "safeParse", "find", "signToken">>

C14_FreshToken ==
    [][(Idle /\ req'.endpoint = "POST /login" /\ resp'.status = 200)
          => resp'.body.token \notin Tokens]_vars

\* the messages of the errors raised inside jsonwebtoken
LibraryMessages ==
    {"jwt must be provided", "jwt malformed", "invalid token", "jwt signature is required",
     "invalid algorithm", "invalid signature", "jwt expired"}

\* C15: a request body that cannot be parsed is answered 500 with a fixed
\* body by POST /login, and by POST /messages once authentication
\* succeeded; every 500 carries one of the two fixed bodies and no
\* response carries the message of a library error.
C15_GenericInternalError ==
    /\ (req.endpoint = "POST /login" /\ req.body.kind = "unparseable") =>
          /\ resp.status = 500
          /\ resp.body = [EmptyBody EXCEPT !.keys = {"error"}, !.error = "Internal server error"]
    /\ (req.endpoint = "POST /messages" /\ req.body.kind = "unparseable"
          /\ authenticateRequest(req.auth, now).ok) =>
          /\ resp.status = 500
          /\ resp.body = [EmptyBody EXCEPT
                             !.keys = {"error", "message"},
                             !.error = "Internal server error",
                             !.message = "An unexpected error occurred while processing your message"]
    /\ resp.status = 500 => (req.body.kind = "unparseable" /\ resp.body.error = "Internal server error")
    /\ resp.body.message \notin LibraryMessages
    /\ resp.body.error \notin LibraryMessages

C15_Witness ==
    /\ req.endpoint = "POST /messages"
    /\ req.body.kind = "unparseable"
    /\ resp.status = 500
    /\ \E k \in issued : Presented(k.token)

\* C16: GET /messages returns the 200 list exactly when authenticateRequest
\* succeeds, with submittedBy the username of the token, and 401 for a
\* missing, invalid or expired token, as POST /messages does.
C16_GetRequiresAuthentication ==
    req.endpoint = "GET /messages" =>
        LET a == authenticateRequest(req.auth, now)
        IN  /\ resp.status \in {200, 401}
            /\ resp.status = 200 <=> a.ok
            /\ resp.status = 200 =>
                  /\ resp.body.data.submittedBy = a.payload.username
                  /\ \E k \in issued :
                        /\ Presented(k.token)
                        /\ now < k.at + ExpiresInSeconds
                        /\ resp.body.data.submittedBy = k.user.username
            /\ (~HasBearerToken \/ BearerToken \notin Tokens) => resp.status = 401
            /\ \A k \in issued :
                  (Presented(k.token) /\ now >= k.at + ExpiresInSeconds) => resp.status = 401
            /\ resp.status = 401 <=>
                  MessagesPOST([req EXCEPT !.body = ValidMessage], now).status = 401

C16_Witness ==
    /\ req.endpoint = "GET /messages"
    /\ resp.status = 401
    /\ \E k \in issued : Presented(k.token) /\ now >= k.at + ExpiresInSeconds

\* the response of the route handler a request is for
Handle(r, t) ==
    CASE r.endpoint = "POST /login" -> LoginPOST(r, t)
      [] r.endpoint = "POST /messages" -> MessagesPOST(r, t)
      [] r.endpoint = "GET /messages" -> MessagesGET(r, t)
      [] OTHER -> NoResp

C18_SameRuleSet ==
    LET formData == FormData(state)
        wire == JsonParse(JsonStringify(formData, FieldOrder), FieldNames)
    IN  /\ ClientParse(formData).success <=> SafeParse(messageSchema, wire).success
        /\ caller = "handleSubmit" =>
              /\ SafeParse(messageSchema, req.body).success
              /\ resp.status # 400
              /\ resp.status = (IF authenticateRequest(req.auth, now).ok THEN 200 ELSE 401)

C18_Witness ==
    /\ caller = "handleSubmit"
    /\ resp.status = 200
    /\ Quote \in {req.body.f.message.s[i] : i \in 1..Len(req.body.f.message.s)}
    /\ state.isSubmitting

\* C19: for every {name, email, message} input the data annotations of the
\* C# MessageRequest accept it iff messageSchema accepts it.
C19_MessageRequestEquivalent ==
    req.endpoint = "POST /messages" =>
        (MessageRequest(req.body) <=> SafeParse(messageSchema, req.body).success)

\* the outcome class of a login response
OutcomeClass(status) ==
    CASE status = 200 -> "success"
      [] status = 401 -> "unauthorized"
      [] status = 400 -> "validation failure"
      [] OTHER -> "error"

\* C20: for every login request the C# endpoint and the Next.js endpoint
\* give the same outcome class and, on success, the same user.
C20_LoginMirrors ==
    req.endpoint = "POST /login" =>
        LET cs == CsLogin(req.body)
        IN  /\ OutcomeClass(cs.status) = OutcomeClass(resp.status)
            /\ cs.token <=> "token" \in resp.body.keys
            /\ cs.status = 200 => cs.user = resp.body.user

(***************************************************************************)
(* Properties of the responses, the contact form and the C# example.       *)
(***************************************************************************)
\* sub occurs in s as a run of consecutive characters
Contains(s, sub) ==
    \E i \in 1..(Len(s) - Len(sub) + 1) : SubSeq(s, i, i + Len(sub) - 1) = sub

\* C21: a login success response holds the token and the user's id and
\* username and nothing else of the account: the password is neither a
\* value of the body nor part of the token, and the token's claims are
\* exactly userId, username, issued-at and expires-at.
C21_OnlyPublicIdentity ==
    (req.endpoint = "POST /login" /\ resp.status = 200) =>
        LET u == CHOOSE i \in 1..Len(accounts) :
                     /\ accounts[i].username = req.body.f.username.s
                     /\ accounts[i].password = req.body.f.password.s
            segments == Split(resp.body.token, ".")
            claims == Split(segments[2], ",")
        IN  /\ resp.body.keys = {"success", "token", "user"}
            /\ resp.body.user = [id |-> accounts[u].id, username |-> accounts[u].username]
            /\ Len(segments) = 3
            /\ claims = <<accounts[u].id, accounts[u].username,
                          Digits(now), Digits(now + ExpiresInSeconds)>>
            /\ ~Contains(resp.body.token, accounts[u].password)
            /\ accounts[u].password \notin {resp.body.user.id, resp.body.user.username}

C21_Witness ==
    /\ req.endpoint = "POST /login"
    /\ resp.status = 200
    /\ req.body.f.password.s = MOCK_USERS[2].password
    /\ now > 0

(***************************************************************************)
(* The C# example serving POST /api/messages.                              *)
(***************************************************************************)
\* the principal of a request: none, or the user of a validated token
CsPrincipals == {NullStr, Str(MOCK_USERS[1].username)}

CsPostMessages ==
    /\ Idle
    /\ \E p \in CsPrincipals, b \in SchemaBodies :
          LET r == [endpoint |-> "POST /api/messages", auth |-> p, body |-> b]
          IN  /\ req' = r
              /\ resp' = CsMessagesPOST(r)
    /\ UNCHANGED <<now, ticks, issued, accounts, state, page, caller, timers>>

NextCs == CsPostMessages \/ Complete

SpecCs == Init /\ [][NextCs]_vars

\* C22: the C# POST /api/messages answers a body that violates the
\* MessageRequest data annotations with 400 and its handler body does not
\* run on it.
C22_InvalidAnswered400 ==
    (req.endpoint = "POST /api/messages" /\ ~req.auth.isNull /\ ~MessageRequest(req.body)) =>
        /\ resp.status = 400
        /\ \A i \in 1..Len(resp.steps) : resp.steps[i] # "handler"

(***************************************************************************)
(* The callbacks of the page invoked directly, whatever the page renders:  *)
(* the rendered page offers the form only while it holds a token, so the   *)
(* branch of handleSubmit for a missing token is reached only this way.    *)
(***************************************************************************)
\* the values setToken is called with: null, and the token of a login
SubmitTokens ==
    {NullStr,
     Str(signToken([userId |-> MOCK_USERS[1].id, username |-> MOCK_USERS[1].username], 0))}

SetToken ==
    /\ \E tok \in SubmitTokens \ {page.token} : page' = [page EXCEPT !.token = tok]
    /\ UNCHANGED <<now, ticks, issued, req, resp, accounts, state, caller, timers>>

\* dispatch({type: 'SET_FIELD', field, value})
EditField ==
    /\ \E k \in FieldNames :
          \E v \in FieldValues[k] :
             state' = formReducer(state, [type |-> "SET_FIELD", field |-> k, value |-> v])
    /\ UNCHANGED <<now, ticks, issued, req, resp, accounts, page, caller, timers>>

InvokeSubmit ==
    /\ Idle
    /\ caller = "none"
    /\ timers < MaxTimers
    /\ LET out == handleSubmit(state, page.token)
       IN  /\ state' = out.state
           /\ IF out.fetch
              THEN /\ req' = out.request
                   /\ resp' = MessagesPOST(out.request, now)
                   /\ caller' = "handleSubmit"
              ELSE UNCHANGED <<req, resp, caller>>
    /\ UNCHANGED <<now, ticks, issued, accounts, page, timers>>

NextSubmit == SetToken \/ EditField \/ InvokeSubmit \/ SubmitSettled \/ TimerFires

SpecSubmit == Init /\ [][NextSubmit]_vars

\* the page holds a token handleSubmit takes for one
HoldsToken == ~page.token.isNull /\ page.token.s # <<>>

\* C23: handleSubmit fetches exactly when the form fields pass messageSchema
\* and the page holds a token; when the fields fail it leaves a message in
\* errors for exactly the failing fields and sends nothing; when they pass
\* and the token is null it leaves submitError 'Please login first' and
\* sends nothing.  Every request in flight carries fields that pass the
\* schema and a bearer token.
C23_SendsOnlyValidWithToken ==
    LET formData == FormData(state)
        accepted == SafeParse(messageSchema,
                              JObject([k \in FieldNames |-> JStr(formData[k])])).success
        out == handleSubmit(state, page.token)
    IN  /\ out.fetch <=> (accepted /\ HoldsToken)
        /\ ~out.fetch => out.request = NoReq /\ ~out.state.isSubmitting
        /\ ~accepted =>
              \A k \in FieldNames :
                 (out.state.errors[k].present /\ out.state.errors[k].value # "")
                    <=> StringIssues(JStr(formData[k]), messageSchema[k]) # <<>>
        /\ (accepted /\ ~HoldsToken) =>
              out.state.submitError = Error("Please login first")
        /\ req.endpoint = "POST /messages" <=> caller = "handleSubmit"
        /\ caller = "handleSubmit" =>
              /\ SafeParse(messageSchema, req.body).success
              /\ StartsWith(req.auth.s, BearerPrefix)
              /\ Len(req.auth.s) > Len(BearerPrefix)
              /\ req.auth.s # BearerPrefix \o <<"n", "u", "l", "l">>

C23_Witness ==
    /\ Idle
    /\ page.token.isNull
    /\ state.submitError = Error("Please login first")
    /\ ~state.isSubmitting
    /\ SafeParse(messageSchema,
                 JObject([k \in FieldNames |-> JStr(FormData(state)[k])])).success

(***************************************************************************)
(* The page with its pending continuations run: a fetch settles and a      *)
(* timer fires.                                                            *)
(***************************************************************************)
SpecClientLive ==
    /\ SpecClient
    /\ WF_vars(LoginSettled)
    /\ WF_vars(SubmitSettled)
    /\ WF_vars(TimerFires)

\* C24: a handleSubmit that fetches leaves isSubmitting true, isSubmitting
\* is true only while that fetch is outstanding, and once the fetch has
\* settled (or the form was reset) isSubmitting is false again.
C24_SubmittingEnds ==
    /\ [][(caller = "none" /\ caller' = "handleSubmit") => state'.isSubmitting]_vars
    /\ [](state.isSubmitting => caller = "handleSubmit")
    /\ (state.isSubmitting ~> ~state.isSubmitting)

C24_Witness ==
    /\ caller = "none"
    /\ ~state.isSubmitting
    /\ state.submitError = Error("An unexpected error occurred")

\* C26: whenever a reset timer is pending, the form state later equals
\* initialState, whatever edits, submissions or logout come in between.
C26_ResetAfterSuccess == (timers > 0) ~> (state = initialState)

C26_Witness ==
    /\ timers = 1
    /\ state = initialState
    /\ FormShown
    /\ caller = "none"

\* C27: while the page holds no token (before the first login, and from a
\* logout to the next login) the form state equals initialState, also when
\* a submission that was in flight at the logout settles later.
C27_LoggedOutFormInitial == LoginShown => state = initialState

(***************************************************************************)
(* The reducer alone: any sequence of its actions from initialState.       *)
(***************************************************************************)
\* an action of type FormAction; the keys a type does not have are unused
FormAction(type) ==
    [type |-> type, field |-> "name", value |-> <<>>, errors |-> NoErrors,
     isSubmitting |-> FALSE, error |-> ""]

\* values of the errors key of SET_ERRORS
ErrorRecords ==
    {NoErrors,
     [NoErrors EXCEPT !.email = Message("Invalid email address")],
     [name |-> Message("Name must be at least 2 characters"),
      email |-> Message("Invalid email address"),
      message |-> Message("Message must be at least 10 characters")]}

SubmitErrors == {"Please login first", "Failed to submit message"}

FormActions ==
    {[FormAction("SET_FIELD") EXCEPT !.field = kv[1], !.value = kv[2]] :
        kv \in UNION {{<<k, v>> : v \in FieldValues[k] \cup {<<>>}} : k \in FieldNames}}
    \cup {[FormAction("SET_ERRORS") EXCEPT !.errors = e] : e \in ErrorRecords}
    \cup {[FormAction("SET_SUBMITTING") EXCEPT !.isSubmitting = b] : b \in BOOLEAN}
    \cup {[FormAction("SUBMIT_ERROR") EXCEPT !.error = e] : e \in SubmitErrors}
    \cup {FormAction("CLEAR_ERRORS"), FormAction("SUBMIT_SUCCESS"), FormAction("RESET_FORM")}

\* dispatch(action)
ReducerStep ==
    /\ \E action \in FormActions : state' = formReducer(state, action)
    /\ UNCHANGED <<now, ticks, issued, req, resp, accounts, page, caller, timers>>

NextReducer == ReducerStep

SpecReducer == Init /\ [][NextReducer]_vars

\* C25: SET_FIELD puts the value in the named field, leaves errors of that
\* field reading undefined and submitError null, and changes no other
\* field value, no other entry of errors, nor isSubmitting or
\* submitSuccess; RESET_FORM returns initialState.
C25_SetFieldFrame ==
    /\ \A k \in FieldNames :
          \A v \in FieldValues[k] \cup {<<>>} :
             LET after == formReducer(state, [FormAction("SET_FIELD") EXCEPT
                                                 !.field = k, !.value = v])
             IN  /\ after[k] = v
                 /\ after.errors[k].value = ""
                 /\ after.submitError = NoError
                 /\ \A j \in FieldNames \ {k} :
                       after[j] = state[j] /\ after.errors[j] = state.errors[j]
                 /\ after.isSubmitting = state.isSubmitting
                 /\ after.submitSuccess = state.submitSuccess
    /\ formReducer(state, FormAction("RESET_FORM")) = initialState

C25_Witness ==
    /\ state.name = <<"J", "o">>
    /\ state.errors.name = Undefined
    /\ state.errors.email = Message("Invalid email address")
    /\ state.errors.message = Message("Message must be at least 10 characters")
    /\ state.isSubmitting
    /\ state.submitSuccess

\* C28: submitSuccess and a non-null submitError never hold together, and
\* neither SUBMIT_SUCCESS nor SUBMIT_ERROR leaves isSubmitting true.
C28_SuccessExcludesError ==
    /\ ~(state.submitSuccess /\ ~state.submitError.isNull)
    /\ ~formReducer(state, FormAction("SUBMIT_SUCCESS")).isSubmitting
    /\ \A e \in SubmitErrors :
          ~formReducer(state, [FormAction("SUBMIT_ERROR") EXCEPT !.error = e]).isSubmitting

C28_Witness ==
    /\ ~state.submitSuccess
    /\ state.submitError = Error("Failed to submit message")
    /\ ~state.isSubmitting
    /\ state.errors.email = Message("Invalid email address")
    /\ state.message # <<>>

\* C29: the messagePreview of an accepted message is the message itself
\* when it has at most 50 characters and otherwise its first 50 characters
\* followed by '...'; the C# expression gives the same preview, and no
\* preview is longer than 53 characters.
C29_MessagePreview ==
    (req.endpoint = "POST /messages" /\ resp.status = 200) =>
        LET message == req.body.f.message.s
            preview == resp.body.data.messagePreview
        IN  /\ Len(message) <= 50 => preview = message
            /\ Len(message) > 50 =>
                  /\ Len(preview) = 53
                  /\ \A i \in 1..50 : preview[i] = message[i]
                  /\ \A i \in 51..53 : preview[i] = "."
            /\ preview = CsPreview(message)
            /\ Len(preview) <= 53

C29_Witness ==
    /\ req.endpoint = "POST /messages"
    /\ resp.status = 200
    /\ Len(req.body.f.message.s) = 51
    /\ Len(resp.body.data.messagePreview) = 53

(***************************************************************************)
(* The hello route.                                                        *)
(***************************************************************************)
HelloBodies ==
    LoginBodies \cup MessageBodies \cup {NoBody, JOther("array"), JOther("string")}

HelloHeaders == OtherHeaders({}) \cup BearerHeaders(Forged(0))

HelloGet ==
    /\ Idle
    /\ \E h \in HelloHeaders :
          req' = [endpoint |-> "GET /hello", auth |-> h, body |-> NoBody]
    /\ resp' = HelloGET
    /\ UNCHANGED <<now, ticks, issued, accounts, state, page, caller, timers>>

HelloPost ==
    /\ Idle
    /\ \E h \in HelloHeaders, b \in HelloBodies :
          LET r == [endpoint |-> "POST /hello", auth |-> h, body |-> b]
          IN  /\ req' = r
              /\ resp' = HelloPOST(r)
    /\ UNCHANGED <<now, ticks, issued, accounts, state, page, caller, timers>>

NextHello == HelloGet \/ HelloPost \/ Complete

SpecHello == Init /\ [][NextHello]_vars

\* C30: POST /hello answers 400 {error: 'Invalid JSON'} when the body is
\* not JSON text and otherwise 200 with receivedData equal to the parsed
\* body, whatever the Authorization header; it never answers 500 or 401.
C30_HelloPost ==
    req.endpoint = "POST /hello" =>
        /\ resp.status \in {200, 400}
        /\ resp.status = 400 <=> req.body.kind \in {"unparseable", "none"}
        /\ resp.status = 400 =>
              resp.body = [EmptyBody EXCEPT !.keys = {"error"}, !.error = "Invalid JSON"]
        /\ resp.status = 200 =>
              /\ resp.body.receivedData = req.body
              /\ "receivedData" \in resp.body.keys
              /\ "error" \notin resp.body.keys

C30_Witness ==
    /\ req.endpoint = "POST /hello"
    /\ req.auth.isNull
    /\ req.body.kind = "unparseable"
    /\ resp.status = 400

====
